---- MODULE Spec2Model ----
(***************************************************************************)
(* A model of the CDCL solver of go-sat: Solver.Solve (solver.go) over the *)
(* trail of solver_trail.go.  A clause is the set of its literals (the     *)
(* order of the literals inside a clause decides nothing in the code: at   *)
(* most one literal of a clause can be unit), a formula is the sequence of *)
(* its clauses.  Literals are nonzero integers, a negative one negated.    *)
(***************************************************************************)
EXTENDS Integers, FiniteSets, Sequences, TLC

\* Bounds of the model: the enumerated formulas have at most MaxClauses clauses
\* of at most MaxClauseLen literals over the variables 1..NumVars; Solve is
\* invoked at most MaxCalls times; a test sets at most MaxOverride decision
\* literals; the trail holds at most MaxTrail entries (more than the variables
\* of any formula of the model: only a run that asserts a variable twice can
\* come near it).
NumVars == 2
MaxClauses == 2
MaxClauseLen == 2
MaxCalls == 2
MaxOverride == 2
MaxTrail == 9

\* The three truth values (Tribool), numbered as ValueLit's XOR needs them.
True == 0
False == 1
Undef == 2

\* The highest variable of the model: of the enumerated formulas and of the
\* formulas of the test table.
TopVar == IF NumVars > 7 THEN NumVars ELSE 7

Lits == {l \in (0 - NumVars)..NumVars : l # 0}

Negate(l) == 0 - l

Var(l) == IF l < 0 THEN 0 - l ELSE l

Sign(l) == l < 0

BoolToTri(b) == IF b THEN True ELSE False

\* result ^= 1 on a byte holding True or False.
Xor1(x) == IF x % 2 = 0 THEN x + 1 ELSE x - 1

Max(S) == CHOOSE x \in S : \A y \in S : y <= x

Min(S) == CHOOSE x \in S : \A y \in S : x <= y

\* The clauses of the enumerated formulas: non-empty, and no literal together
\* with its negation (such a clause is never unit and never falsified).
Clauses ==
    {cl \in SUBSET Lits :
        /\ Cardinality(cl) >= 1
        /\ Cardinality(cl) <= MaxClauseLen
        /\ \A l \in cl : Negate(l) \notin cl}

Formulas == UNION {[1..n -> Clauses] : n \in 0..MaxClauses}

\* The formulas of TestSolve_table.
TestFormulas ==
    { <<>>,
      <<{4}>>,
      <<{4}, {6}, {-4, -6}>>,
      <<{-4}, {4, -6}>>,
      <<{-3, 4}, {-1, -3, 5}, {-2, -4, -5}, {-2, 3, 5, -6},
        {-1, 2}, {-1, 3, -5, -6}, {1, -6}, {1, 7}>> }

\* Further formulas, which need decisions, learning and backjumps: unsatisfiable
\* ones (the fourth has three pigeons in two holes) and satisfiable ones, and
\* one whose conflict at level 0 leaves a unit clause behind.
HardFormulas ==
    { <<{1, 2}, {1, -2}, {-1, 2}, {-1, -2}>>,
      <<{1, 2, 3}, {1, 2, -3}, {1, -2, 3}, {1, -2, -3},
        {-1, 2, 3}, {-1, 2, -3}, {-1, -2, 3}, {-1, -2, -3}>>,
      <<{-1, 2}, {-2, 3}, {-3, 4}, {-4, -1}, {1, 5}, {-5, 6}, {-6, 1, 7}, {-7, -1}>>,
      <<{1, 2}, {3, 4}, {5, 6}, {-1, -3}, {-1, -5}, {-3, -5},
        {-2, -4}, {-2, -6}, {-4, -6}>>,
      <<{1, 2}, {-2, 3}, {-3, -4, 5}, {-5, 6}, {-5, -6, -1}, {4, 1}, {-1, -3}>>,
      <<{1, 2}, {-1, 3}, {-2, 3}, {-3, 4}, {-3, -4}>>,
      <<{-1, -3, 4}, {-1, -3, -4}, {2, 5}, {-5, 3, 1}>>,
      <<{1, -2, 3}, {-1, 2}, {-3, -2, 4}, {-4, -1}, {2, 3, 4}, {-3, 1}>>,
      <<{1}, {-1}, {2}>> }

VarsOf(fm) == {Var(l) : l \in UNION {fm[i] : i \in 1..Len(fm)}}

\* The decision sequences a test may set for a formula: literals of its variables.
Overrides(fm) ==
    UNION {[1..n -> {l \in (0 - TopVar)..TopVar : Var(l) \in VarsOf(fm)}] : n \in 1..MaxOverride}

VARIABLES
    orig,            \* the formula handed to AddFormula
    f,               \* s.f: the formula, learned clauses appended
    vars,            \* s.vars
    decideLiterals,  \* s.decideLiterals
    result,          \* s.result
    assigns,         \* s.assigns, Undef for a deleted or missing key
    varinfo,         \* s.varinfo: reason and level of each variable
    trail,           \* s.trail
    trailIdx,        \* s.trailIdx
    qhead,           \* s.qhead
    reasonMap,       \* s.reasonMap, {} for a missing key
    c,               \* s.c
    cH, cP, cL, cN,  \* the conflict working set
    pc,              \* where Solve stands
    ret,             \* what the last return of Solve gave
    calls,           \* how many times Solve was invoked
    trimLevel        \* the level handed to a call of trimToDecisionLevel made on its own

vars_trail == <<assigns, varinfo, trail, trailIdx, qhead>>
vars_conflict == <<c, cH, cP, cL, cN>>
vars_input == <<orig, vars, trimLevel>>
allvars == <<orig, f, vars, decideLiterals, result, assigns, varinfo, trail, trailIdx,
             qhead, reasonMap, c, cH, cP, cL, cN, pc, ret, calls, trimLevel>>

--------------------------------------------------------------------------
\* The trail (solver_trail.go).

\* Mutant: the value of the variable is given for either polarity.
ValueLit_noFlip(l) == assigns[Var(l)]

ValueLit(l) ==
    LET r == assigns[Var(l)] IN
    IF r = Undef THEN Undef
    ELSE IF Sign(l) THEN Xor1(r) ELSE r

decisionLevel == Len(trailIdx)

level(v) == varinfo[v].level

\* The three fields assertLiteral writes, as the values they get.
assertLiteral_assigns(l) == [assigns EXCEPT ![Var(l)] = BoolToTri(~Sign(l))]

assertLiteral_varinfo(l, from, lvl) == [varinfo EXCEPT ![Var(l)] = [reason |-> from, level |-> lvl]]

assertLiteral_trail(l) == Append(trail, l)

newDecisionLevel_trailIdx == Append(trailIdx, Len(trail))

\* trimToDecisionLevel: lastIdx is the 0-based index s.trailIdx[level].
trim_lastIdx(lvl) == trailIdx[lvl + 1]

\* Mutant: the trimmed entries keep their assignment.
trim_assigns_kept(lvl) == assigns

trim_assigns(lvl) ==
    [v \in DOMAIN assigns |->
        IF \E i \in (trim_lastIdx(lvl) + 1)..Len(trail) : Var(trail[i]) = v
        THEN Undef ELSE assigns[v]]

\* Mutant: the truncation keeps one entry too many.
trim_trail_keepOne(lvl) == SubSeq(trail, 1, trim_lastIdx(lvl) + 1)

trim_trail(lvl) == SubSeq(trail, 1, trim_lastIdx(lvl))

\* Mutant: the boundary of the first trimmed level is kept.
trim_trailIdx_keepOne(lvl) == SubSeq(trailIdx, 1, lvl + 1)

trim_trailIdx(lvl) == SubSeq(trailIdx, 1, lvl)

\* The trail's predicates over clauses.
IsUnit(cl, l) ==
    /\ l \in cl
    /\ ValueLit(l) = Undef
    /\ \A l2 \in cl \ {l} : ValueLit(l2) = False

IsClauseFalse(cl) == \A l \in cl : ValueLit(l) = False

FalseClauses == {i \in 1..Len(f) : IsClauseFalse(f[i])}

UnitClauses == {i \in 1..Len(f) : \E l \in f[i] : IsUnit(f[i], l)}

\* Mutant: the scan stops at the last unit clause of the formula.
firstUnit_last == Max(UnitClauses)

\* for _, c := range s.f: the scan stops at the first clause that is unit.
firstUnit == Min(UnitClauses)

--------------------------------------------------------------------------
\* Conflict analysis (solver.go).

\* Mutant: the literals of level 0 are taken into the working set too.
addConflictLiteral_anyLevel(w, l) ==
    IF l \in w.H THEN w
    ELSE LET lv == level(Var(Negate(l))) IN
         IF lv >= 0
         THEN IF lv = decisionLevel
              THEN [w EXCEPT !.H = @ \cup {l}, !.N = @ + 1]
              ELSE [w EXCEPT !.H = @ \cup {l}, !.P = @ \cup {l}]
         ELSE w

RECURSIVE addConflictLiterals(_, _)
addConflictLiteral(w, l) ==
    IF l \in w.H THEN w
    ELSE LET lv == level(Var(Negate(l))) IN
         IF lv > 0
         THEN IF lv = decisionLevel
              THEN [w EXCEPT !.H = @ \cup {l}, !.N = @ + 1]
              ELSE [w EXCEPT !.H = @ \cup {l}, !.P = @ \cup {l}]
         ELSE w

\* for _, l := range ... { s.addConflictLiteral(l) }
addConflictLiterals(w, ls) ==
    IF ls = {} THEN w
    ELSE LET l == CHOOSE x \in ls : TRUE IN
         addConflictLiterals(addConflictLiteral(w, l), ls \ {l})

\* Mutant: the count of current-level literals is not taken down.
removeConflictLiteral_noCount(w, l) ==
    IF level(Var(Negate(l))) = decisionLevel
    THEN [w EXCEPT !.H = @ \ {l}]
    ELSE [w EXCEPT !.H = @ \ {l}, !.P = @ \ {l}]

removeConflictLiteral(w, l) ==
    IF level(Var(Negate(l))) = decisionLevel
    THEN [w EXCEPT !.H = @ \ {l}, !.N = @ - 1]
    ELSE [w EXCEPT !.H = @ \ {l}, !.P = @ \ {l}]

\* Mutant: the search runs from the front of the trail and stops at the first hit.
lastAsserted_first(H, old) ==
    LET hits == {i \in 1..Len(trail) : Negate(trail[i]) \in H} IN
    IF hits # {} THEN trail[Min(hits)]
    ELSE IF Len(trail) > 0 THEN trail[1]
    ELSE old

\* "Find the last asserted literal using the cache": the loop leaves cL at the
\* last trail literal whose negation is in H, at the first trail literal when
\* there is none, and untouched on an empty trail.
lastAsserted(H, old) ==
    LET hits == {i \in 1..Len(trail) : Negate(trail[i]) \in H} IN
    IF hits # {} THEN trail[Max(hits)]
    ELSE IF Len(trail) > 0 THEN trail[1]
    ELSE old

applyConflict(cl) == addConflictLiterals([H |-> {}, P |-> {}, N |-> 0], cl)

applyExplain(lit) ==
    addConflictLiterals(removeConflictLiteral([H |-> cH, P |-> cP, N |-> cN], Negate(lit)),
                        reasonMap[lit] \ {lit})

\* Mutant: the asserting literal goes in without its negation.
buildC_noNegate == cP \cup {cL}

\* buildC
buildC == cP \cup {Negate(cL)}

\* Mutant: the level is taken over all of H, the literal of the current level too.
backjumpLevel_overH == Max({0} \cup {level(Var(Negate(l))) : l \in cH})

\* The target level of applyBackjump.
backjumpLevel == Max({0} \cup {level(Var(Negate(l))) : l \in cP})

\* The literals of the trail, by variable (tMap of selectLiteral).
tMap == {Var(trail[i]) : i \in 1..Len(trail)}

--------------------------------------------------------------------------
\* New and AddFormula.

InitSolver ==
    /\ f = orig
    /\ vars = VarsOf(orig)
    /\ result = "undef"
    /\ assigns = [v \in 0..TopVar |-> Undef]
    /\ varinfo = [v \in 0..TopVar |-> [reason |-> {}, level |-> 0]]
    /\ trail = <<>>
    /\ trailIdx = <<>>
    /\ qhead = 0
    /\ reasonMap = [l \in (0 - TopVar)..TopVar |-> {}]
    /\ c = {}
    /\ cH = {}
    /\ cP = {}
    /\ cL = 0
    /\ cN = 0
    /\ pc = "idle"
    /\ ret = FALSE
    /\ calls = 0

Init ==
    /\ orig \in Formulas \cup TestFormulas \cup HardFormulas
    /\ decideLiterals = <<>>
    /\ trimLevel = 0
    /\ InitSolver

--------------------------------------------------------------------------
\* Solve, one action per step of its loop.

\* Entry of Solve: the cached result, or the loop.
Solve ==
    /\ pc \in {"idle", "done"}
    /\ calls < MaxCalls
    /\ calls' = calls + 1
    /\ IF result # "undef"
       THEN /\ ret' = (result = "sat")
            /\ pc' = "done"
       ELSE /\ pc' = "propagate"
            /\ ret' = ret
    /\ UNCHANGED <<f, decideLiterals, result, reasonMap>>
    /\ UNCHANGED vars_input
    /\ UNCHANGED vars_trail
    /\ UNCHANGED vars_conflict

\* unitPropagate: the scan finds a unit clause and asserts its literal.
PropagateAssert ==
    /\ pc = "propagate"
    /\ UnitClauses # {}
    /\ Len(trail) < MaxTrail
    /\ LET i == firstUnit
           l == CHOOSE x \in f[i] : IsUnit(f[i], x)
       IN /\ assigns' = assertLiteral_assigns(l)
          /\ varinfo' = assertLiteral_varinfo(l, f[i], decisionLevel)
          /\ trail' = assertLiteral_trail(l)
          /\ reasonMap' = [reasonMap EXCEPT ![l] = f[i]]
    /\ pc' = "unit_repeat"
    /\ UNCHANGED <<f, decideLiterals, result, trailIdx, qhead, ret, calls>>
    /\ UNCHANGED vars_input
    /\ UNCHANGED vars_conflict

\* unitPropagate: the scan finds no unit clause.
PropagateDone ==
    /\ pc = "propagate"
    /\ UnitClauses = {}
    /\ pc' = "check"
    /\ UNCHANGED <<f, decideLiterals, result, reasonMap, ret, calls>>
    /\ UNCHANGED vars_input
    /\ UNCHANGED vars_trail
    /\ UNCHANGED vars_conflict

\* UNIT_REPEAT: leave on a falsified clause, scan again otherwise.
UnitRepeat ==
    /\ pc = "unit_repeat"
    /\ pc' = IF FalseClauses # {} THEN "check" ELSE "propagate"
    /\ UNCHANGED <<f, decideLiterals, result, reasonMap, ret, calls>>
    /\ UNCHANGED vars_input
    /\ UNCHANGED vars_trail
    /\ UNCHANGED vars_conflict

\* Mutant: the search is given up with one decision still open.
noDecisionLeft_offByOne == decisionLevel <= 1

\* "If we have no more decisions within the trail": s.m.DecisionsLen() == 0.
noDecisionLeft == decisionLevel = 0

\* A falsified clause: applyConflict, and false when no decision is open.
Conflict ==
    /\ pc = "check"
    /\ \E i \in FalseClauses :
          LET w == applyConflict(f[i]) IN
          /\ cH' = w.H
          /\ cP' = w.P
          /\ cN' = w.N
          /\ cL' = lastAsserted(w.H, cL)
    /\ IF noDecisionLeft
       THEN /\ pc' = "done"
            /\ ret' = FALSE
       ELSE /\ pc' = "explain"
            /\ ret' = ret
    /\ UNCHANGED <<f, decideLiterals, result, reasonMap, c, calls>>
    /\ UNCHANGED vars_input
    /\ UNCHANGED vars_trail

\* No falsified clause and as many trail entries as variables: true.
Satisfied ==
    /\ pc = "check"
    /\ FalseClauses = {}
    /\ Len(trail) = Cardinality(vars)
    /\ pc' = "done"
    /\ ret' = TRUE
    /\ UNCHANGED <<f, decideLiterals, result, reasonMap, calls>>
    /\ UNCHANGED vars_input
    /\ UNCHANGED vars_trail
    /\ UNCHANGED vars_conflict

\* No falsified clause and fewer trail entries: a decision is due.
ToDecide ==
    /\ pc = "check"
    /\ FalseClauses = {}
    /\ Len(trail) # Cardinality(vars)
    /\ pc' = "decide"
    /\ UNCHANGED <<f, decideLiterals, result, reasonMap, ret, calls>>
    /\ UNCHANGED vars_input
    /\ UNCHANGED vars_trail
    /\ UNCHANGED vars_conflict

\* applyExplainUIP: one turn of its loop.
Explain ==
    /\ pc = "explain"
    /\ cN # 1
    /\ LET w == applyExplain(cL) IN
       /\ cH' = w.H
       /\ cP' = w.P
       /\ cN' = w.N
       /\ cL' = lastAsserted(w.H, cL)
    /\ UNCHANGED <<f, decideLiterals, result, reasonMap, c, pc, ret, calls>>
    /\ UNCHANGED vars_input
    /\ UNCHANGED vars_trail

\* Mutant: the learned clause joins the formula whatever its length.
learnClause_always == Append(f, buildC)

\* if len(s.c) > 1 { s.f = append(s.f, s.c) }; s.c has len(s.cP)+1 elements.
learnClause == IF Cardinality(cP) + 1 > 1 THEN Append(f, buildC) ELSE f

\* applyExplainUIP leaves its loop: buildC, and the clause joins the formula
\* when it has more than one literal.
Learn ==
    /\ pc = "explain"
    /\ cN = 1
    /\ c' = buildC
    /\ f' = learnClause
    /\ pc' = "backjump"
    /\ UNCHANGED <<decideLiterals, result, reasonMap, cH, cP, cL, cN, ret, calls>>
    /\ UNCHANGED vars_input
    /\ UNCHANGED vars_trail

\* applyBackjump: the trail is trimmed to the target level.
BackjumpTrim ==
    /\ pc = "backjump"
    /\ LET lvl == backjumpLevel IN
       IF decisionLevel <= lvl
       THEN UNCHANGED vars_trail
       ELSE /\ assigns' = trim_assigns(lvl)
            /\ qhead' = trim_lastIdx(lvl)
            /\ trail' = trim_trail(lvl)
            /\ trailIdx' = trim_trailIdx(lvl)
            /\ UNCHANGED varinfo
    /\ pc' = "assert"
    /\ UNCHANGED <<f, decideLiterals, result, reasonMap, ret, calls>>
    /\ UNCHANGED vars_input
    /\ UNCHANGED vars_conflict

\* applyBackjump: the negation of cL is asserted, the learned clause its reason.
BackjumpAssert ==
    /\ pc = "assert"
    /\ Len(trail) < MaxTrail
    /\ LET lit == Negate(cL) IN
       /\ assigns' = assertLiteral_assigns(lit)
       /\ varinfo' = assertLiteral_varinfo(lit, c, decisionLevel)
       /\ trail' = assertLiteral_trail(lit)
       /\ reasonMap' = [reasonMap EXCEPT ![lit] = c]
    /\ pc' = "propagate"
    /\ UNCHANGED <<f, decideLiterals, result, trailIdx, qhead, ret, calls>>
    /\ UNCHANGED vars_input
    /\ UNCHANGED vars_conflict

\* Mutant: the variables on the trail are not left out.
selectLiteral_default_any == vars

\* selectLiteral without an override: a variable of s.vars that is not on the
\* trail, in the order the map's iteration gives, or literal 0 when none is left.
selectLiteral_default ==
    IF vars \ tMap # {} THEN vars \ tMap ELSE {0}

\* A decision: a new level, and the literal asserted without a reason.
DecideAssert(lit) ==
    /\ trailIdx' = newDecisionLevel_trailIdx
    /\ assigns' = assertLiteral_assigns(lit)
    /\ varinfo' = assertLiteral_varinfo(lit, {}, decisionLevel + 1)
    /\ trail' = assertLiteral_trail(lit)
    /\ pc' = "propagate"
    /\ UNCHANGED <<f, result, reasonMap, qhead, ret, calls>>
    /\ UNCHANGED vars_input
    /\ UNCHANGED vars_conflict

Decide ==
    /\ pc = "decide"
    /\ decideLiterals = <<>>
    /\ Len(trail) < MaxTrail
    /\ \E lit \in selectLiteral_default : DecideAssert(lit)
    /\ UNCHANGED decideLiterals

\* selectLiteral with an override: the head of decideLiterals is taken off, and
\* looked up in tMap as it stands (tMap holds variables, the positive literals).
selectLiteral_taken(lit) == lit \in tMap

DecideOverride ==
    /\ pc = "decide"
    /\ decideLiterals # <<>>
    /\ Len(trail) < MaxTrail
    /\ ~selectLiteral_taken(Head(decideLiterals))
    /\ decideLiterals' = Tail(decideLiterals)
    /\ DecideAssert(Head(decideLiterals))

\* panic("decideLiteral taken")
DecidePanic ==
    /\ pc = "decide"
    /\ decideLiterals # <<>>
    /\ selectLiteral_taken(Head(decideLiterals))
    /\ decideLiterals' = Tail(decideLiterals)
    /\ pc' = "panic"
    /\ UNCHANGED <<f, result, reasonMap, ret, calls>>
    /\ UNCHANGED vars_input
    /\ UNCHANGED vars_trail
    /\ UNCHANGED vars_conflict

Next ==
    \/ Solve
    \/ PropagateAssert
    \/ PropagateDone
    \/ UnitRepeat
    \/ Conflict
    \/ Satisfied
    \/ ToDecide
    \/ Explain
    \/ Learn
    \/ BackjumpTrim
    \/ BackjumpAssert
    \/ Decide

Spec == Init /\ [][Next]_allvars

\* Solve runs to its return: the program is one thread that never waits.
SpecLive == Init /\ [][Next]_allvars /\ WF_allvars(Next)

\* A test that sets decideLiterals before it calls Solve.
InitOverride ==
    /\ orig \in Formulas \cup TestFormulas \cup HardFormulas
    /\ decideLiterals \in Overrides(orig)
    /\ trimLevel = 0
    /\ InitSolver

NextOverride ==
    \/ Next
    \/ DecideOverride
    \/ DecidePanic

SpecOverride == InitOverride /\ [][NextOverride]_allvars

\* trimToDecisionLevel called on its own, once Solve has returned, with a level
\* at or above the current one: it returns at once.
trimToDecisionLevel_return ==
    /\ pc = "done"
    /\ \E lvl \in decisionLevel..(decisionLevel + 1) :
          /\ decisionLevel <= lvl
          /\ trimLevel' = lvl
    /\ pc' = "trimmed"
    /\ UNCHANGED <<orig, vars, f, decideLiterals, result, reasonMap, ret, calls>>
    /\ UNCHANGED vars_trail
    /\ UNCHANGED vars_conflict

\* trimToDecisionLevel called on its own with a level below the current one.
trimToDecisionLevel_trim ==
    /\ pc = "done"
    /\ \E lvl \in 0..(decisionLevel - 1) :
          /\ ~(decisionLevel <= lvl)
          /\ trimLevel' = lvl
          /\ assigns' = trim_assigns(lvl)
          /\ qhead' = trim_lastIdx(lvl)
          /\ trail' = trim_trail(lvl)
          /\ trailIdx' = trim_trailIdx(lvl)
          /\ UNCHANGED varinfo
    /\ pc' = "trimmed"
    /\ UNCHANGED <<orig, vars, f, decideLiterals, result, reasonMap, ret, calls>>
    /\ UNCHANGED vars_conflict

NextTrim ==
    \/ Next
    \/ trimToDecisionLevel_return
    \/ trimToDecisionLevel_trim

\* The search, and a call of trimToDecisionLevel on the solver it leaves.
SpecTrim == Init /\ [][NextTrim]_allvars

--------------------------------------------------------------------------
\* What the claims speak of.

\* The literal l holds when exactly the variables of S are true.
HoldsIn(S, l) == IF l > 0 THEN l \in S ELSE Negate(l) \notin S

ClauseHoldsIn(S, cl) == \E l \in cl : HoldsIn(S, l)

\* The assignments of the variables of the formula handed in that satisfy it.
Models == {S \in SUBSET VarsOf(orig) : \A i \in 1..Len(orig) : ClauseHoldsIn(S, orig[i])}

Returned(b) == pc = "done" /\ calls >= 1 /\ ret = b

\* C1 (soundness): when Solve returns true, every variable of the formula is
\* assigned and every clause of the formula handed in has a literal that is True.
C1_Soundness ==
    Returned(TRUE) =>
        /\ \A v \in vars : assigns[v] # Undef
        /\ \A i \in 1..Len(orig) : \E l \in orig[i] : ValueLit(l) = True

\* Solve returned true after a conflict, a learned clause and a backjump.
C1_Witness ==
    /\ Returned(TRUE)
    /\ Len(f) > Len(orig)
    /\ decisionLevel >= 1
    /\ Cardinality(vars) >= 3

\* C2 (completeness): when Solve returns false, no assignment of the variables
\* satisfies every clause of the formula handed in.
C2_Completeness == Returned(FALSE) => Models = {}

\* Solve returned false after it had learned a clause.
C2_Witness ==
    /\ Returned(FALSE)
    /\ Len(f) > Len(orig)

\* C3 (termination): every run of the Solve loop reaches a return.
C3_Termination == (pc # "done") ~> (pc = "done")

\* A return after two learned clauses and at least one turn of the analysis loop.
C3_Witness ==
    /\ pc = "done"
    /\ Len(f) >= Len(orig) + 2

\* C5 (learned-clause entailment): every clause appended to the formula, the
\* clause just learned, and every clause recorded as the reason of a literal are
\* satisfied by every assignment that satisfies the formula handed in.
C5_LearnedEntailed ==
    LET given == {orig[i] : i \in 1..Len(orig)}
        learned == ({f[i] : i \in (Len(orig) + 1)..Len(f)}
                    \cup (IF pc \in {"backjump", "assert"} THEN {c} ELSE {})
                    \cup {reasonMap[l] : l \in DOMAIN reasonMap}) \ ({{}} \cup given)
        ms == Models
    IN learned # {} => \A cl \in learned : \A S \in ms : ClauseHoldsIn(S, cl)

\* A learned clause of two literals in the formula, and a learned clause of one
\* literal, not a clause of the formula, as the reason of its literal.
C5_Witness ==
    /\ Len(f) > Len(orig)
    /\ \E l \in DOMAIN reasonMap :
          /\ reasonMap[l] = {l}
          /\ \A i \in 1..Len(f) : f[i] # {l}
          /\ ValueLit(l) = True

\* C4 (result caching), as claimed: a Solve invoked after a return ends at once,
\* with the same result and the trail and the formula as they were.
C4_ResultCached ==
    [][(pc = "done" /\ calls >= 1) =>
          (pc' = "done" /\ ret' = ret /\ trail' = trail /\ f' = f)]_allvars

\* C6 (backjump progress): a conflict is followed by the return of false or by
\* the analysis, which leaves the levels alone, and the trim that follows ends
\* at a level strictly below the level of the conflict.
C6_BackjumpProgress ==
    [][/\ (pc = "check" /\ FalseClauses # {}) =>
            \/ pc' = "done" /\ ret' = FALSE
            \/ pc' = "explain" /\ trailIdx' = trailIdx
       /\ pc = "explain" => trailIdx' = trailIdx
       /\ pc = "backjump" => Len(trailIdx') < Len(trailIdx)]_allvars

\* After a trim, a variable that was assigned two or more levels above the
\* level the trail is now at: the backjump went over a level.
C6_Witness ==
    /\ pc = "assert"
    /\ qhead = Len(trail)
    /\ \E v \in vars : assigns[v] = Undef /\ level(v) >= decisionLevel + 2

\* C7 (override on an assigned variable), as claimed: when the head of the
\* override names a variable of the trail, in either polarity, the step is the
\* panic and nothing is asserted.
C7_TakenIsFatal ==
    [][(pc = "decide" /\ decideLiterals # <<>> /\ Var(Head(decideLiterals)) \in tMap) =>
          (pc' = "panic" /\ trail' = trail /\ assigns' = assigns)]_allvars

\* The variables of the formula without an assignment.
Unassigned == {v \in vars : assigns[v] = Undef}

\* C8 (default decision), as claimed: a decision opens a level and asserts the
\* lowest-numbered unassigned variable, positive.
C8_LowestNumbered ==
    [][pc = "decide" =>
          /\ Unassigned # {}
          /\ trailIdx' = Append(trailIdx, Len(trail))
          /\ trail' = Append(trail, Min(Unassigned))]_allvars

\* C8 as the code has it: a decision opens a level and asserts some unassigned
\* variable of the formula, positive, at the new level and without a reason.
C8_SomeUnassigned ==
    [][pc = "decide" =>
          \E v \in Unassigned :
             /\ trailIdx' = Append(trailIdx, Len(trail))
             /\ trail' = Append(trail, v)
             /\ assigns' = [assigns EXCEPT ![v] = True]
             /\ varinfo'[v] = [reason |-> {}, level |-> Len(trailIdx) + 1]]_allvars

\* The first decision of a run took a variable while a lower one was unassigned.
C8_Witness ==
    /\ decisionLevel >= 1
    /\ \E v \in vars :
          /\ v < trail[trailIdx[1] + 1]
          /\ \A i \in 1..trailIdx[1] : Var(trail[i]) # v

OnTrail(l) == \E i \in 1..Len(trail) : trail[i] = l

\* C9 (literal value): ValueLit(l) is Undef exactly when neither l nor its
\* negation is on the trail, True exactly when l is, False exactly when the
\* negation is; when assigned it is True exactly when the value of the variable
\* agrees with the polarity of l, and l and its negation have opposite values.
C9_LiteralValue ==
    \A l \in (0 - TopVar)..TopVar :
       l # 0 =>
          /\ ValueLit(l) \in {True, False, Undef}
          /\ ValueLit(l) = Undef <=> assigns[Var(l)] = Undef
          /\ ValueLit(l) = Undef <=> (~OnTrail(l) /\ ~OnTrail(Negate(l)))
          /\ ValueLit(l) = True <=> OnTrail(l)
          /\ ValueLit(l) = False <=> OnTrail(Negate(l))
          /\ assigns[Var(l)] # Undef =>
                (ValueLit(l) = True <=> ((assigns[Var(l)] = True) <=> (l > 0)))
          /\ ValueLit(l) = True <=> ValueLit(Negate(l)) = False
          /\ ValueLit(l) = Undef <=> ValueLit(Negate(l)) = Undef

\* A negative literal on the trail, a positive one, and a variable that a trim
\* has left without an assignment.
C9_Witness ==
    /\ \E i \in 1..Len(trail) : trail[i] < 0
    /\ \E i \in 1..Len(trail) : trail[i] > 0
    /\ \E v \in vars : assigns[v] = Undef /\ level(v) > 0

\* C10 (asserting clause): between the trim and the assertion of the negation
\* of cL, the trail stands at the highest level of the negations of the
\* literals of P (0 for an empty P), and the learned clause is unit: the
\* negation of cL has no value and every other literal of the clause is False.
C10_AssertingClause ==
    pc = "assert" =>
       /\ decisionLevel = Max({0} \cup {varinfo[Var(l)].level : l \in cP})
       /\ c = cP \cup {Negate(cL)}
       /\ ValueLit(Negate(cL)) = Undef
       /\ \A l \in c \ {Negate(cL)} : ValueLit(l) = False

\* A learned clause of three literals, asserting at level 2.
C10_Witness ==
    /\ pc = "assert"
    /\ Cardinality(c) >= 3
    /\ decisionLevel >= 2

\* C11 (propagation stops at a conflict), as claimed: no step of unitPropagate
\* asserts a literal while a clause of the formula is falsified.
C11_NoAssertOnConflict ==
    [][(pc = "propagate" /\ trail' # trail) => FalseClauses = {}]_allvars

\* The positions of the trail that hold a decision literal.
DecisionPositions == {trailIdx[k] + 1 : k \in 1..Len(trailIdx)}

\* C12 (first UIP, no resolution on a decision): a literal the analysis is about
\* to resolve on is on the trail, is not a decision, and its reason in reasonMap
\* is the clause its trail entry was asserted from and holds the literal; the
\* analysis is left with cN = 1 and exactly one literal of H falsified at the
\* current level, the negation of cL.
C12_FirstUIP ==
    /\ (pc = "explain" /\ cN # 1) =>
          /\ \E i \in 1..Len(trail) : trail[i] = cL /\ i \notin DecisionPositions
          /\ reasonMap[cL] # {}
          /\ cL \in reasonMap[cL]
          /\ reasonMap[cL] = varinfo[Var(cL)].reason
    /\ pc = "backjump" =>
          /\ cN = 1
          /\ {l \in cH : level(Var(l)) = decisionLevel} = {Negate(cL)}
          /\ ValueLit(Negate(cL)) = False

\* A resolution step is due, after a clause was learned, while a decision
\* literal of the trail still has the reason of an earlier assertion of it.
C12_Witness ==
    /\ pc = "explain"
    /\ cN # 1
    /\ Len(f) > Len(orig)
    /\ \E i \in DecisionPositions : i <= Len(trail) /\ reasonMap[trail[i]] # {}

\* C13 (reason invariant): every trail entry that is not a decision has a reason
\* in reasonMap that holds its literal, and every other literal of that reason
\* is falsified by an entry earlier on the trail.
C13_ReasonInvariant ==
    \A i \in 1..Len(trail) :
       i \notin DecisionPositions =>
          LET l == trail[i]
              r == reasonMap[l]
          IN /\ l \in r
             /\ \A l2 \in r \ {l} : \E j \in 1..(i - 1) : trail[j] = Negate(l2)

\* Above level 0, after a trim, an entry whose reason is a learned clause of
\* two or more literals.
C13_Witness ==
    /\ decisionLevel >= 1
    /\ qhead > 0
    /\ \E i \in 1..Len(trail) :
          /\ i \notin DecisionPositions
          /\ Cardinality(reasonMap[trail[i]]) >= 2
          /\ \A k \in 1..Len(orig) : orig[k] # reasonMap[trail[i]]

\* C14 (decision-level structure): the boundaries of trailIdx increase strictly
\* and each marks an entry of the trail, so the entries before the first
\* boundary (level 0) hold no decision and each level from 1 on begins with its
\* one decision literal; the entries asserted as decisions are exactly those at
\* the boundaries; the number of boundaries is the current level; the level
\* recorded for each trail entry is the number of boundaries before it.
C14_LevelStructure ==
    /\ Len(trailIdx) = decisionLevel
    /\ \A k \in 1..Len(trailIdx) : trailIdx[k] < Len(trail)
    /\ \A k \in 1..(Len(trailIdx) - 1) : trailIdx[k] < trailIdx[k + 1]
    /\ \A i \in 1..Len(trail) :
          /\ level(Var(trail[i])) = Cardinality({k \in 1..Len(trailIdx) : trailIdx[k] < i})
          /\ (i \in DecisionPositions) <=> (varinfo[Var(trail[i])].reason = {})

\* After a clause was learned: two open levels, entries at level 0 and a level
\* that holds more than its decision literal.
C14_Witness ==
    /\ Len(f) > Len(orig)
    /\ decisionLevel >= 2
    /\ trailIdx[1] > 0
    /\ trailIdx[2] > trailIdx[1] + 1

\* C15 (no double assignment, no override supplied): no step asserts a literal
\* whose variable is assigned; every variable is at most once on the trail; the
\* trail is as long as the number of assigned variables.
C15_NoDoubleAssignment ==
    /\ [](/\ \A i, j \in 1..Len(trail) : Var(trail[i]) = Var(trail[j]) => i = j
          /\ Len(trail) = Cardinality({v \in DOMAIN assigns : assigns[v] # Undef}))
    /\ [][Len(trail') > Len(trail) =>
             /\ Len(trail') = Len(trail) + 1
             /\ assigns[Var(trail'[Len(trail')])] = Undef]_allvars

\* After a clause was learned, every variable of the formula is on the trail.
C15_Witness ==
    /\ Len(f) > Len(orig)
    /\ Len(trail) >= 3
    /\ Len(trail) = Cardinality(vars)

\* C16 (Unsatisfied only at level 0): a step of the search that ends Solve with
\* false is taken with a clause falsified and no decision level open; a
\* falsified clause found with no level open ends Solve with false; a falsified
\* clause found with a level open starts the analysis, which ends in the
\* backjump, and no step of the analysis or the backjump ends Solve.
C16_UnsatOnlyAtLevelZero ==
    [][/\ (pc \notin {"idle", "done"} /\ pc' = "done" /\ ret' = FALSE) =>
             (pc = "check" /\ FalseClauses # {} /\ decisionLevel = 0)
       /\ (pc = "check" /\ FalseClauses # {} /\ decisionLevel = 0) =>
             (pc' = "done" /\ ret' = FALSE)
       /\ (pc = "check" /\ FalseClauses # {} /\ decisionLevel > 0) => pc' = "explain"
       /\ pc = "explain" => pc' \in {"explain", "backjump"}
       /\ pc = "backjump" => (pc' = "assert" /\ decisionLevel' < decisionLevel)
       /\ pc = "assert" => pc' = "propagate"]_allvars

\* Solve has returned false after a conflict at an open level made it learn a
\* clause.
C16_Witness ==
    /\ pc = "done"
    /\ ret = FALSE
    /\ decisionLevel = 0
    /\ FalseClauses # {}
    /\ Len(f) > Len(orig)

LevelZeroLen == IF trailIdx = <<>> THEN Len(trail) ELSE trailIdx[1]

\* C18 (formula monotonicity): the clauses handed in stay the first clauses of
\* the formula, unaltered and in order; the formula changes only when a learned
\* clause of more than one literal is appended; a learned clause of one literal
\* is not appended, its backjump goes to level 0 and asserts its literal there,
\* and no step removes an entry of level 0 from the trail.
C18_FormulaMonotone ==
    /\ [](Len(f) >= Len(orig) /\ SubSeq(f, 1, Len(orig)) = orig)
    /\ [][/\ f' # f => (pc = "explain" /\ pc' = "backjump" /\ Cardinality(c') > 1)
          /\ (pc = "explain" /\ pc' = "backjump") =>
                f' = IF Cardinality(c') > 1 THEN Append(f, c') ELSE f
          /\ (pc = "backjump" /\ Cardinality(c) = 1) => decisionLevel' = 0
          /\ (pc = "assert" /\ Cardinality(c) = 1) =>
                (decisionLevel' = 0 /\ c = {trail'[Len(trail')]})
          /\ Len(trail') >= LevelZeroLen
          /\ SubSeq(trail', 1, LevelZeroLen) = SubSeq(trail, 1, LevelZeroLen)]_allvars

\* The last clause learned has one literal, which is on the trail at level 0
\* while a later decision is open, and a longer clause was learned as well.
C18_Witness ==
    /\ Cardinality(c) = 1
    /\ Len(f) > Len(orig)
    /\ decisionLevel >= 1
    /\ \E i \in 1..LevelZeroLen : c = {trail[i]}

\* What trimToDecisionLevel(lvl) is claimed to do in one step.
TrimFrame(lvl) ==
    IF decisionLevel <= lvl
    THEN UNCHANGED <<assigns, varinfo, trail, trailIdx, qhead>>
    ELSE /\ assigns' = [v \in DOMAIN assigns |->
                          IF \E i \in 1..Len(trail) : Var(trail[i]) = v /\ level(v) > lvl
                          THEN Undef ELSE assigns[v]]
         /\ trail' = SubSeq(trail, 1, Cardinality({i \in 1..Len(trail) : level(Var(trail[i])) <= lvl}))
         /\ \A i \in 1..Len(trail) : level(Var(trail[i])) <= lvl =>
               /\ i <= Len(trail')
               /\ trail'[i] = trail[i]
               /\ varinfo'[Var(trail[i])] = varinfo[Var(trail[i])]
               /\ assigns'[Var(trail[i])] = assigns[Var(trail[i])]
         /\ trailIdx' = SubSeq(trailIdx, 1, lvl)
         /\ decisionLevel' = lvl

\* C19 (trim frame condition): a trim to a level below the current one unassigns
\* exactly the variables asserted above that level, cuts the trail and the list
\* of boundaries down to it and leaves the entries at or below it as they were;
\* a trim to the current level or above changes nothing.  Both the trim of
\* applyBackjump and a call made on its own are covered.
C19_TrimFrame ==
    [][/\ pc = "backjump" => TrimFrame(backjumpLevel)
       /\ pc' = "trimmed" => TrimFrame(trimLevel')]_allvars

\* A call made on its own has cut a trail of two or more open levels, after a
\* clause was learned, down to a level above 0 that keeps a propagated entry.
C19_Witness ==
    /\ pc = "trimmed"
    /\ trimLevel >= 1
    /\ decisionLevel = trimLevel
    /\ Unassigned # {}
    /\ Len(trail) > trimLevel
    /\ Len(f) > Len(orig)

\* C20 (deterministic propagation order): a step of unitPropagate that asserts
\* takes the first clause of the formula, in its order, that is unit, asserts
\* the unassigned literal of it and records that clause as its reason; a
\* decision is made only when no clause is unit and none is falsified.
C20_PropagationOrder ==
    [][/\ (pc = "propagate" /\ trail' # trail) =>
             \E i \in 1..Len(f) :
                /\ \A j \in 1..(i - 1) : \A l \in f[j] : ~IsUnit(f[j], l)
                /\ \E l \in f[i] :
                      /\ ValueLit(l) = Undef
                      /\ \A l2 \in f[i] \ {l} : ValueLit(l2) = False
                      /\ trail' = Append(trail, l)
                      /\ reasonMap'[l] = f[i]
                      /\ assigns'[Var(l)] = BoolToTri(~Sign(l))
       /\ (pc = "decide" /\ trail' # trail) =>
             (UnitClauses = {} /\ FalseClauses = {})]_allvars

\* At an open level unitPropagate has asserted the literal of a clause that
\* comes before another clause of the formula that is still unit.
C20_Witness ==
    /\ pc = "unit_repeat"
    /\ decisionLevel >= 1
    /\ Len(trail) > 0
    /\ \E i \in UnitClauses : \E j \in 1..(i - 1) : f[j] = reasonMap[trail[Len(trail)]]

====
